---- MODULE Spec2Model ----
(***************************************************************************)
(* Model of src/main.py: the Streamlit dashboard over netflix_titles.csv.  *)
(*                                                                         *)
(* The script is re-executed top to bottom on every interaction.  One run  *)
(* is: load_and_clean_data (memoised by st.cache_data) -> sidebar widgets  *)
(* -> filter -> aggregations -> data sample.                               *)
(*                                                                         *)
(* Text cells are sequences of one-character strings, so that str.replace, *)
(* str.split and str.contains are computed symbol by symbol.  An empty     *)
(* CSV cell (pandas NaN) is the empty string "" for the cells kept as a    *)
(* whole (title, type, rating) and the empty sequence << >> for the cells  *)
(* that are parsed.  date_added is a sequence of words, with " " standing  *)
(* for surrounding white space.                                            *)
(***************************************************************************)
EXTENDS Integers, Sequences, FiniteSets, TLC

\* ------------------------------------------------------------------ bounds
\* Longest raw table of the cleaning specification.
MaxRows == 2
\* Longest raw table of the dashboard specification (a prefix of Catalog).
MaxViewRows == 6

\* ------------------------------------------------------------- text cells
NaN == << >>

Drop(s, n) == SubSeq(s, n + 1, Len(s))

StartsWith(s, p) == Len(p) <= Len(s) /\ SubSeq(s, 1, Len(p)) = p

\* Position-independent substring test (re.search of a literal).
HasSubstring(s, p) == \E i \in 0..(Len(s) - Len(p)) : SubSeq(s, i + 1, i + Len(p)) = p

Digits == <<"0", "1", "2", "3", "4", "5", "6", "7", "8", "9">>

DigitValue(c) == CHOOSE d \in 0..9 : Digits[d + 1] = c

IsDigit(c) == \E d \in 0..9 : Digits[d + 1] = c

RECURSIVE DecimalValue(_)
DecimalValue(s) ==
    IF s = << >> THEN 0
    ELSE 10 * DecimalValue(SubSeq(s, 1, Len(s) - 1)) + DigitValue(s[Len(s)])

\* Series.astype(float) on one string of the modelled alphabet (digits, letters,
\* blank): a non-empty run of digits converts, anything else raises ValueError.
AsFloat(s) ==
    IF s # << >> /\ \A i \in 1..Len(s) : IsDigit(s[i])
    THEN [ok |-> TRUE, v |-> DecimalValue(s)]
    ELSE [ok |-> FALSE, v |-> 0]

Min == <<" ", "m", "i", "n">>
Season == <<" ", "S", "e", "a", "s", "o", "n">>

\* .str.replace(' min', ''): every occurrence, left to right.
RECURSIVE ReplaceMin(_)
ReplaceMin(s) ==
    IF s = << >> THEN << >>
    ELSE IF StartsWith(s, Min) THEN ReplaceMin(Drop(s, Len(Min)))
    ELSE <<Head(s)>> \o ReplaceMin(Tail(s))

\* .str.replace(r' Seasons?| Season', '', regex=True): at each position the first
\* alternative is tried first and its optional s is greedy.
RECURSIVE ReplaceSeasons(_)
ReplaceSeasons(s) ==
    IF s = << >> THEN << >>
    ELSE IF StartsWith(s, Season \o <<"s">>)
         THEN ReplaceSeasons(Drop(s, Len(Season) + 1))
    ELSE IF StartsWith(s, Season) THEN ReplaceSeasons(Drop(s, Len(Season)))
    ELSE <<Head(s)>> \o ReplaceSeasons(Tail(s))

\* ', '.join(cells)
CommaSpace == <<",", " ">>

RECURSIVE Join(_, _)
Join(cells, sep) ==
    IF cells = << >> THEN << >>
    ELSE IF Len(cells) = 1 THEN cells[1]
    ELSE cells[1] \o sep \o Join(Tail(cells), sep)

\* str.split(', '): the pieces between the separators, in order.
RECURSIVE SplitFrom(_, _, _)
SplitFrom(s, sep, piece) ==
    IF s = << >> THEN <<piece>>
    ELSE IF StartsWith(s, sep) THEN <<piece>> \o SplitFrom(Drop(s, Len(sep)), sep, << >>)
    ELSE SplitFrom(Tail(s), sep, Append(piece, Head(s)))

Split(s, sep) == SplitFrom(s, sep, << >>)

Range(f) == {f[i] : i \in DOMAIN f}

\* ------------------------------------------------------------------ dates
MonthNumber ==
    [w \in {"January", "February", "March", "April", "May", "June", "July",
            "August", "September", "October", "November", "December"} |->
        CASE w = "January" -> 1 [] w = "February" -> 2 [] w = "March" -> 3
          [] w = "April" -> 4 [] w = "May" -> 5 [] w = "June" -> 6
          [] w = "July" -> 7 [] w = "August" -> 8 [] w = "September" -> 9
          [] w = "October" -> 10 [] w = "November" -> 11 [] w = "December" -> 12]

\* The numerals that occur in the modelled files.
Numeral ==
    [w \in {"1", "5", "2015", "2019", "2020", "2021"} |->
        CASE w = "1" -> 1 [] w = "5" -> 5 [] w = "2015" -> 2015
          [] w = "2019" -> 2019 [] w = "2020" -> 2020 [] w = "2021" -> 2021]

NaT == [nat |-> TRUE, year |-> 0, month |-> 0]

\* Series.str.strip(): leading and trailing white space removed.
RECURSIVE StripLeft(_)
StripLeft(s) == IF s # << >> /\ Head(s) = " " THEN StripLeft(Tail(s)) ELSE s

RECURSIVE StripRight(_)
StripRight(s) ==
    IF s # << >> /\ s[Len(s)] = " " THEN StripRight(SubSeq(s, 1, Len(s) - 1)) ELSE s

Strip(s) == StripRight(StripLeft(s))

\* pd.to_datetime(..., errors='coerce') on one cell: "<Month> <day>, <year>"
\* parses, anything else (inner or outer white space included) becomes NaT.
ToDatetime(s) ==
    IF /\ Len(s) = 3
       /\ s[1] \in DOMAIN MonthNumber
       /\ s[2] \in DOMAIN Numeral /\ Numeral[s[2]] \in 1..28
       /\ s[3] \in DOMAIN Numeral /\ Numeral[s[3]] >= 1000
    THEN [nat |-> FALSE, year |-> Numeral[s[3]], month |-> MonthNumber[s[1]]]
    ELSE NaT

\* ------------------------------------------------- load_and_clean_data
\* A table is [rows, date_dtype]; each row carries its pandas index label.
\* read_csv gives an all-empty column of a non-empty table dtype float64, and
\* object dtype as soon as one cell holds text (or the table has no row).
ReadCsv(f) ==
    [rows |-> [i \in DOMAIN f |->
                  [index |-> i, title |-> f[i].title, type |-> f[i].type,
                   director |-> f[i].director, cast |-> f[i].cast,
                   country |-> f[i].country, date_added |-> f[i].date_added,
                   release_year |-> f[i].release_year, rating |-> f[i].rating,
                   duration |-> f[i].duration, listed_in |-> f[i].listed_in,
                   description |-> f[i].description]],
     date_dtype |-> IF f # << >> /\ \A i \in DOMAIN f : f[i].date_added = NaN
                    THEN "float64" ELSE "object"]

SameKey(a, b) == a.title = b.title /\ a.type = b.type

\* drop_duplicates as it would be with keep='last'.
DropDuplicatesKeepLast(rows) ==
    SelectSeq(rows, LAMBDA r :
        \A j \in DOMAIN rows : SameKey(rows[j], r) => rows[j].index <= r.index)

\* df.drop_duplicates(subset=['title', 'type']): keep='first'.
DropDuplicates(rows) ==
    SelectSeq(rows, LAMBDA r :
        \A j \in DOMAIN rows : SameKey(rows[j], r) => rows[j].index >= r.index)

Unknown == <<"U", "n", "k", "n", "o", "w", "n">>

FillText(cell) == IF cell = NaN THEN Unknown ELSE cell

\* director, cast, country: fillna('Unknown').
FillNa(rows) ==
    [i \in DOMAIN rows |->
        [rows[i] EXCEPT !.director = FillText(@), !.cast = FillText(@),
                        !.country = FillText(@)]]

\* dropna(subset=['date_added', 'rating', 'duration']).
DropNa(rows) ==
    SelectSeq(rows, LAMBDA r : r.date_added # NaN /\ r.rating # "" /\ r.duration # NaN)

\* pd.to_datetime(df['date_added'].str.strip(), errors='coerce'), then
\* dropna(subset=['date_added']) and year_added = date_added.dt.year.
ParseDates(rows) ==
    SelectSeq([i \in DOMAIN rows |->
                  [index |-> rows[i].index, title |-> rows[i].title,
                   type |-> rows[i].type, director |-> rows[i].director,
                   cast |-> rows[i].cast, country |-> rows[i].country,
                   date_added |-> ToDatetime(Strip(rows[i].date_added)),
                   release_year |-> rows[i].release_year, rating |-> rows[i].rating,
                   duration |-> rows[i].duration, listed_in |-> rows[i].listed_in,
                   description |-> rows[i].description,
                   year_added |-> ToDatetime(Strip(rows[i].date_added)).year]],
              LAMBDA r : ~r.date_added.nat)

\* The table as it would be without line 61.
TemporalFilterOff(rows) == rows

\* df[df['year_added'] >= df['release_year']]

TemporalFilter(rows) == SelectSeq(rows, LAMBDA r : r.year_added >= r.release_year)

\* group_rating with UR on the second list.
group_rating_swapped(rating) ==
    IF rating \in {"TV-MA", "R", "NC-17"} THEN "Adulto"
    ELSE IF rating \in {"TV-14", "PG-13", "UR"} THEN "Adolescente"
    ELSE "Família/Crianças"

\* Lines 63-66.
group_rating(rating) ==
    IF rating \in {"TV-MA", "R", "NC-17", "UR"} THEN "Adulto"
    ELSE IF rating \in {"TV-14", "PG-13"} THEN "Adolescente"
    ELSE "Família/Crianças"

\* duration_minutes as it would be written without movie_mask.
DurationMinutesOfAny(r) == <<AsFloat(ReplaceMin(r.duration)).v>>

\* The value written into duration_minutes / duration_seasons for one row: the
\* parsed number on the rows of the mask, NaN on the others.
DurationMinutesOf(r) ==
    IF r.type = "Movie" THEN <<AsFloat(ReplaceMin(r.duration)).v>> ELSE NaN

DurationSeasonsOf(r) ==
    IF r.type = "TV Show" THEN <<AsFloat(ReplaceSeasons(r.duration)).v>> ELSE NaN

\* .astype(float) raises ValueError when one cell of the mask does not convert.
DurationsConvert(rows) ==
    \A i \in DOMAIN rows :
        /\ rows[i].type = "Movie" => AsFloat(ReplaceMin(rows[i].duration)).ok
        /\ rows[i].type = "TV Show" => AsFloat(ReplaceSeasons(rows[i].duration)).ok

\* rating_group, month_added, content_lag_years, duration_minutes, duration_seasons.
Features(rows) ==
    [i \in DOMAIN rows |->
        [index |-> rows[i].index, title |-> rows[i].title, type |-> rows[i].type,
         director |-> rows[i].director, cast |-> rows[i].cast,
         country |-> rows[i].country, date_added |-> rows[i].date_added,
         release_year |-> rows[i].release_year, rating |-> rows[i].rating,
         duration |-> rows[i].duration, listed_in |-> rows[i].listed_in,
         description |-> rows[i].description, year_added |-> rows[i].year_added,
         rating_group |-> group_rating(rows[i].rating),
         month_added |-> rows[i].date_added.month,
         content_lag_years |-> rows[i].year_added - rows[i].release_year,
         duration_minutes |-> DurationMinutesOf(rows[i]),
         duration_seasons |-> DurationSeasonsOf(rows[i])]]

Returned(kind, rows) == [kind |-> kind, rows |-> rows]

Ok(rows) == [status |-> "ok", rows |-> rows]
Missing == [status |-> "missing", rows |-> << >>]
Unreadable == [status |-> "unreadable", rows |-> << >>]

\* load_and_clean_data as it would be with `except Exception` around read_csv.
load_and_clean_data_catch_all(f) ==
    IF f.status # "ok" THEN Returned("none", << >>)
    ELSE LET csv == ReadCsv(f.rows)
             kept == DropNa(FillNa(DropDuplicates(csv.rows)))
         IN  IF csv.date_dtype # "object" THEN Returned("raise", << >>)
             ELSE LET valid == TemporalFilter(ParseDates(kept))
                  IN  IF ~DurationsConvert(valid) THEN Returned("raise", << >>)
                      ELSE Returned("table", Features(valid))

\* The body of load_and_clean_data on the file f = [status, rows].  Only
\* FileNotFoundError is caught (st.error, return None); any other failure of
\* read_csv or of a later line propagates.
load_and_clean_data(f) ==
    IF f.status = "missing" THEN Returned("none", << >>)
    ELSE IF f.status = "unreadable" THEN Returned("raise", << >>)
    ELSE LET csv == ReadCsv(f.rows)
             kept == DropNa(FillNa(DropDuplicates(csv.rows)))
         IN  IF csv.date_dtype # "object" THEN Returned("raise", << >>)
             ELSE LET valid == TemporalFilter(ParseDates(kept))
                  IN  IF ~DurationsConvert(valid) THEN Returned("raise", << >>)
                      ELSE Returned("table", Features(valid))

\* ------------------------------------------------------------ script state
VARIABLES
    file,         \* netflix_titles.csv on disk: [status, rows]
    cache,        \* st.cache_data's entry for load_and_clean_data ("empty" if none)
    cachedFrom,   \* the file the cached entry was computed from
    fileAtRun,    \* the file as it was when the current run called the loader
    cacheHit,     \* the current run took the loader's result from the cache
    pc,           \* position of the current run in the script
    df_original,  \* line 82
    st_error,     \* number of st.error elements shown by the current run
    selected,     \* the sidebar widgets' values, lines 89-125
    df,           \* the filtered view, line 128
    report,       \* what the sections of lines 138-290 rendered
    slider,       \* the sample-size slider's configuration, line 298
    num_rows      \* line 298: << >> until chosen

vars == <<file, cache, cachedFrom, fileAtRun, cacheHit, pc, df_original, st_error,
          selected, df, report, slider, num_rows>>

Unset == [kind |-> "unset", rows |-> << >>]
Empty == [kind |-> "empty", rows |-> << >>]

\* ---------------------------------------------------- sidebar, lines 86-125
UnitedStates == <<"U", "n", "i", "t", "e", "d", " ", "S", "t", "a", "t", "e", "s">>

Column(rows, name) == [i \in DOMAIN rows |-> rows[i][name]]

\* Series.unique() as the set of options offered.
Unique(values) == Range(values)

\* sorted(list(set(', '.join(column).split(', ')))): the options offered.
UniqueTokens(cells) == Range(Split(Join(cells, CommaSpace), CommaSpace))

SetMin(S) == CHOOSE x \in S : \A y \in S : x <= y
SetMax(S) == CHOOSE x \in S : \A y \in S : x >= y

\* What a slider widget hands back.  With min_value < max_value the user can
\* reach the values min_value + k * step up to max_value, and the run starts
\* with the configured value.  A configuration without min_value < max_value is
\* outside the widget's contract: the library then either raises or hands back
\* the configured value.
SliderOutcomes(cfg) ==
    IF cfg.min_value < cfg.max_value
    THEN {[raises |-> FALSE, value |-> v] :
            v \in {w \in cfg.min_value..cfg.max_value :
                     (w - cfg.min_value) % cfg.step = 0} \cup {cfg.value}}
    ELSE {[raises |-> TRUE, value |-> cfg.value], [raises |-> FALSE, value |-> cfg.value]}

\* The range slider of line 120, value=(min_year, max_year), step 1.
RangeSliderOutcomes(lo, hi) ==
    IF lo < hi
    THEN {[raises |-> FALSE, value |-> v] : v \in {w \in (lo..hi) \X (lo..hi) : w[1] <= w[2]}}
    ELSE {[raises |-> TRUE, value |-> <<lo, hi>>], [raises |-> FALSE, value |-> <<lo, hi>>]}

Todos == <<"T", "o", "d", "o", "s">>

NoSelection ==
    [type |-> {}, rating |-> {}, country |-> {}, genre |-> Todos, year |-> <<0, 0>>]

\* Lines 104-108 raise when the default 'United States' is not an option, and
\* line 119 raises on int(NaN) when the cleaned table has no row.
SidebarRaises(rows) ==
    \/ UnitedStates \notin UniqueTokens(Column(rows, "country"))
    \/ rows = << >>

\* Every combination of widget values the user can have set.
Selections(rows) ==
    {[type |-> t, rating |-> g, country |-> c, genre |-> k, year |-> y.value] :
        t \in SUBSET Unique(Column(rows, "type")),
        g \in SUBSET Unique(Column(rows, "rating_group")),
        c \in SUBSET UniqueTokens(Column(rows, "country")),
        k \in {Todos} \cup UniqueTokens(Column(rows, "listed_in")),
        y \in {o \in RangeSliderOutcomes(SetMin(Range(Column(rows, "release_year"))),
                                         SetMax(Range(Column(rows, "release_year")))) :
                 ~o.raises}}

YearSliderMayRaise(rows) ==
    \E o \in RangeSliderOutcomes(SetMin(Range(Column(rows, "release_year"))),
                                 SetMax(Range(Column(rows, "release_year")))) : o.raises

\* ------------------------------------------------------ filter, lines 128-134
\* '|'.join(selected_country) as the set of its alternatives: the join of an
\* empty list is the empty pattern, one alternative that matches everywhere.
JoinedPattern(selected_country) ==
    IF selected_country = {} THEN {<< >>} ELSE selected_country

\* Series.str.contains(pattern) on one cell (country names hold no regex
\* metacharacter in the modelled alphabet).
StrContains(cell, alternatives) == \E a \in alternatives : HasSubstring(cell, a)

ApplyFilter(rows, sel) ==
    SelectSeq(rows, LAMBDA r :
        /\ r.type \in sel.type
        /\ r.rating_group \in sel.rating
        /\ r.release_year >= sel.year[1]
        /\ r.release_year <= sel.year[2]
        /\ StrContains(r.country, JoinedPattern(sel.country)))

\* ------------------------------------------------ reporting, lines 138-290
\* Series.value_counts(): each value that occurs, with its number of rows.
ValueCounts(values) ==
    [v \in Range(values) |-> Cardinality({i \in DOMAIN values : values[i] = v})]

\* Series.str.split(', ').explode()
RECURSIVE Explode(_)
Explode(cells) ==
    IF cells = << >> THEN << >> ELSE Split(Head(cells), CommaSpace) \o Explode(Tail(cells))

TopK == 10

\* value_counts().head(10): the (at most) ten most frequent values.
HeadTopK(counts) ==
    LET keys == DOMAIN counts
        k == IF Cardinality(keys) < TopK THEN Cardinality(keys) ELSE TopK
        top == CHOOSE S \in SUBSET keys :
                  /\ Cardinality(S) = k
                  /\ \A a \in S, b \in keys \ S : counts[a] >= counts[b]
    IN  [v \in top |-> counts[v]]

OfType(rows, t) == SelectSeq(rows, LAMBDA r : r.type = t)

\* groupby('year_added')['type'].value_counts().unstack().fillna(0)
ContentByYear(rows) ==
    [y \in Range(Column(rows, "year_added")) |->
        [t \in Range(Column(rows, "type")) |->
            Len(SelectSeq(rows, LAMBDA r : r.year_added = y /\ r.type = t))]]

\* Lines 252-270: the bar chart, or st.info when no TV show is in the view.
SeasonsSection(rows) ==
    LET df_shows == SelectSeq(OfType(rows, "TV Show"), LAMBDA r : r.duration_seasons # NaN)
    IN  IF df_shows # << >>
        THEN [shown |-> "chart", counts |-> ValueCounts(Column(df_shows, "duration_seasons"))]
        ELSE [shown |-> "info", counts |-> << >>]

\* Lines 275-290: the word cloud, or st.warning when the joined text is empty.
WordCloudSection(rows, selected_genre) ==
    LET df_wordcloud ==
            IF selected_genre # Todos
            THEN SelectSeq(rows, LAMBDA r : HasSubstring(r.listed_in, selected_genre))
            ELSE rows
        text == Join(Column(df_wordcloud, "description"), <<" ">>)
    IN  IF text # << >> THEN [shown |-> "cloud", text |-> text]
        ELSE [shown |-> "warning", text |-> text]

NoReport == [rendered |-> FALSE, sample |-> "pending"]

Report(rows, sel) ==
    [rendered |-> TRUE,
     total_titles |-> Len(rows),
     movie_count |-> Len(OfType(rows, "Movie")),
     tv_show_count |-> Len(OfType(rows, "TV Show")),
     type_counts |-> ValueCounts(Column(rows, "type")),
     rating_counts |-> ValueCounts(Column(rows, "rating_group")),
     content_by_year |-> ContentByYear(rows),
     columns_to_plot |-> Range(Column(rows, "type")),
     top_10_countries |->
        HeadTopK(ValueCounts(Explode(Column(
            SelectSeq(rows, LAMBDA r : r.country # Unknown), "country")))),
     top_10_genres |-> HeadTopK(ValueCounts(Explode(Column(rows, "listed_in")))),
     movie_minutes |->
        Column(SelectSeq(OfType(rows, "Movie"), LAMBDA r : r.duration_minutes # NaN),
               "duration_minutes"),
     seasons |-> SeasonsSection(rows),
     wordcloud |-> WordCloudSection(rows, sel.genre),
     sample |-> "pending"]

\* ---------------------------------------------------- sample, lines 294-310
SampleMin == 5
SampleStep == 5
SampleDefault == 10

NoSlider == [configured |-> FALSE, min_value |-> 0, max_value |-> 0, value |-> 0, step |-> 0]

\* The slider as it would be configured without the guard of line 297.
SampleSliderUnguarded(rows) ==
    [configured |-> TRUE, min_value |-> SampleMin, max_value |-> Len(rows),
     value |-> IF SampleDefault < Len(rows) THEN SampleDefault ELSE Len(rows),
     step |-> SampleStep]

\* The slider of line 298, configured only when the view is not empty.
SampleSlider(rows) ==
    IF rows # << >>
    THEN [configured |-> TRUE, min_value |-> SampleMin, max_value |-> Len(rows),
          value |-> IF SampleDefault < Len(rows) THEN SampleDefault ELSE Len(rows),
          step |-> SampleStep]
    ELSE NoSlider

\* ------------------------------------------------------------------ inputs
Min90 == <<"9", "0", " ", "m", "i", "n">>
Season1 == <<"1", " ", "S", "e", "a", "s", "o", "n">>
Seasons2 == <<"2", " ", "S", "e", "a", "s", "o", "n", "s">>
India == <<"I", "n", "d", "i", "a">>
Dramas == <<"D", "r", "a", "m", "a", "s">>
Comedies == <<"C", "o", "m", "e", "d", "i", "e", "s">>

RawRow(title, type, date_added, release_year, rating, duration, country, listed_in) ==
    [title |-> title, type |-> type, director |-> NaN, cast |-> NaN,
     country |-> country, date_added |-> date_added, release_year |-> release_year,
     rating |-> rating, duration |-> duration, listed_in |-> listed_in,
     description |-> <<"a", "story">>]

\* A duration cell of the form the type's parser expects, and one it does not.
WellFormed(type, k) ==
    IF type = "Movie" THEN Min90 ELSE IF k = 1 THEN Season1 ELSE Seasons2

Malformed(type) == IF type = "Movie" THEN Season1 ELSE Min90

\* Raw rows of one (title, type): sound ones and ones with the row-level defects
\* of lines 55-61 and 76-77, alone and combined.
Variants(t, ty) ==
    {RawRow(t, ty, <<"January", "1", "2021", " ">>, 2020, "PG-13", WellFormed(ty, 1), NaN, Dramas),
     RawRow(t, ty, <<" ", "June", "5", "2020">>, 2020, "TV-MA", WellFormed(ty, 2), India, Dramas),
     RawRow(t, ty, <<"March", "1", "2015">>, 2020, "PG-13", WellFormed(ty, 1), India, Dramas),
     RawRow(t, ty, NaN, 2020, "PG-13", WellFormed(ty, 1), India, Dramas),
     RawRow(t, ty, <<"soon">>, 2020, "PG-13", WellFormed(ty, 1), India, Dramas),
     RawRow(t, ty, <<"January", "1", "2021">>, 2020, "", WellFormed(ty, 1), India, Dramas),
     RawRow(t, ty, <<"January", "1", "2021">>, 2020, "G", NaN, India, Dramas),
     RawRow(t, ty, <<"January", "1", "2021">>, 2020, "G", Malformed(ty), India, Dramas),
     RawRow(t, ty, <<"January", "1", "2021">>, 2020, "", Malformed(ty), India, Dramas),
     RawRow(t, ty, <<"March", "1", "2015">>, 2020, "G", Malformed(ty), India, Dramas)}

DefectRows == UNION {Variants(t, ty) : t \in {<<"A">>, <<"B">>}, ty \in {"Movie", "TV Show"}}

RECURSIVE Decimal(_)
Decimal(n) == IF n < 10 THEN <<Digits[n + 1]>> ELSE Decimal(n \div 10) \o <<Digits[(n % 10) + 1]>>

TitleOf(i) == <<"T">> \o Decimal(i)

Ratings == {"TV-MA", "R", "NC-17", "UR", "TV-14", "PG-13", "G", "NR"}

\* Sound rows that differ in their rating, one title per position.
RatingRows(i) ==
    {RawRow(TitleOf(i), "Movie", <<"January", "1", "2021">>, 2020, r, Min90, India, Dramas) :
        r \in Ratings}

SeqsUpTo(S, n) == UNION {[1..m -> S] : m \in 0..n}

CleanFiles ==
    {Ok(rows) : rows \in SeqsUpTo(DefectRows, MaxRows)} \cup
    {Ok(rows) : rows \in {s \in SeqsUpTo(UNION {RatingRows(i) : i \in 1..MaxRows}, MaxRows) :
                            \A i \in DOMAIN s : s[i] \in RatingRows(i)}}

\* The i-th row of the catalogue the dashboard specification reads: sound rows
\* that cycle through types, ratings, country cells, years and genres.
Catalog(i) ==
    RawRow(TitleOf(i),
           IF i % 2 = 1 THEN "Movie" ELSE "TV Show",
           <<"January", "1", "2021">>,
           2019 + ((i \div 2) % 2),
           <<"TV-MA", "PG-13", "G">>[(i % 3) + 1],
           IF i % 2 = 1 THEN Min90 ELSE IF i % 4 = 2 THEN Season1 ELSE Seasons2,
           <<UnitedStates, India \o CommaSpace \o UnitedStates, NaN, India>>[((i - 1) % 4) + 1],
           <<Dramas, Comedies \o CommaSpace \o Dramas>>[(i % 2) + 1])

ViewFiles == {Missing, Unreadable} \cup {Ok([i \in 1..n |-> Catalog(i)]) : n \in 0..MaxViewRows}

\* ----------------------------------------------------------------- actions
StartOfRun ==
    /\ pc = "start"
    /\ cacheHit = FALSE
    /\ fileAtRun = Missing
    /\ df_original = Unset
    /\ st_error = 0
    /\ selected = NoSelection
    /\ df = << >>
    /\ report = NoReport
    /\ slider = NoSlider
    /\ num_rows = << >>

Init ==
    /\ file \in ViewFiles
    /\ cache = Empty
    /\ cachedFrom = Missing
    /\ StartOfRun

InitClean ==
    /\ file \in CleanFiles
    /\ cache = Empty
    /\ cachedFrom = Missing
    /\ StartOfRun

\* A cache that would key the entry by the file's content.
CacheLookupByContent(entry, from, f) == IF from = f THEN entry ELSE Empty

\* @st.cache_data on a function without parameters: the entry is keyed by the
\* function alone, so whatever was stored is what a later call finds.
CacheLookup(entry, from, f) == entry

\* Line 82, no entry cached: the body runs; a returned value (None included) is
\* stored, an exception is not.
Load ==
    /\ pc = "start"
    /\ CacheLookup(cache, cachedFrom, file) = Empty
    /\ LET res == load_and_clean_data(file)
       IN  IF res.kind = "raise"
           THEN /\ pc' = "raised"
                /\ UNCHANGED <<cache, cachedFrom, df_original, st_error>>
           ELSE /\ pc' = "loaded"
                /\ cache' = res
                /\ cachedFrom' = file
                /\ df_original' = res
                /\ st_error' = IF res.kind = "none" THEN 1 ELSE 0
    /\ fileAtRun' = file
    /\ cacheHit' = FALSE
    /\ UNCHANGED <<file, selected, df, report, slider, num_rows>>

\* Line 82, entry cached: the stored value is returned and the elements the
\* body showed (st.error) are replayed; the file is not read.
LoadCached ==
    /\ pc = "start"
    /\ CacheLookup(cache, cachedFrom, file) # Empty
    /\ pc' = "loaded"
    /\ df_original' = cache
    /\ st_error' = IF cache.kind = "none" THEN 1 ELSE 0
    /\ fileAtRun' = file
    /\ cacheHit' = TRUE
    /\ UNCHANGED <<file, cache, cachedFrom, selected, df, report, slider, num_rows>>

\* Line 84 with df_original None: nothing else is executed.
NoTable ==
    /\ pc = "loaded"
    /\ df_original.kind = "none"
    /\ pc' = "done"
    /\ UNCHANGED <<file, cache, cachedFrom, fileAtRun, cacheHit, df_original, st_error,
                   selected, df, report, slider, num_rows>>

\* Lines 86-125.
Sidebar ==
    /\ pc = "loaded"
    /\ df_original.kind = "table"
    /\ \/ /\ SidebarRaises(df_original.rows)
          /\ pc' = "raised"
          /\ UNCHANGED selected
       \/ /\ ~SidebarRaises(df_original.rows)
          /\ YearSliderMayRaise(df_original.rows)
          /\ pc' = "raised"
          /\ UNCHANGED selected
       \/ /\ ~SidebarRaises(df_original.rows)
          /\ \E sel \in Selections(df_original.rows) : selected' = sel
          /\ pc' = "filter"
    /\ UNCHANGED <<file, cache, cachedFrom, fileAtRun, cacheHit, df_original, st_error,
                   df, report, slider, num_rows>>

\* Lines 128-134.
ApplyFilters ==
    /\ pc = "filter"
    /\ df' = ApplyFilter(df_original.rows, selected)
    /\ pc' = "report"
    /\ UNCHANGED <<file, cache, cachedFrom, fileAtRun, cacheHit, df_original, st_error,
                   selected, report, slider, num_rows>>

\* Lines 138-290.
Aggregate ==
    /\ pc = "report"
    /\ report' = Report(df, selected)
    /\ pc' = "sample"
    /\ UNCHANGED <<file, cache, cachedFrom, fileAtRun, cacheHit, df_original, st_error,
                   selected, df, slider, num_rows>>

\* Lines 294-310.  df.sample(num_rows) raises when asked for more rows than the
\* view holds.
Sample ==
    /\ pc = "sample"
    /\ slider' = SampleSlider(df)
    /\ IF slider'.configured
       THEN \E o \in SliderOutcomes(slider') :
               IF o.raises
               THEN /\ pc' = "raised"
                    /\ UNCHANGED <<num_rows, report>>
               ELSE /\ num_rows' = <<o.value>>
                    /\ pc' = IF o.value > Len(df) THEN "raised" ELSE "done"
                    /\ report' = [report EXCEPT !.sample =
                                     IF o.value > Len(df) THEN "pending" ELSE "dataframe"]
       ELSE /\ pc' = "done"
            /\ report' = [report EXCEPT !.sample = "warning"]
            /\ UNCHANGED num_rows
    /\ UNCHANGED <<file, cache, cachedFrom, fileAtRun, cacheHit, df_original, st_error,
                   selected, df>>

\* Any interaction re-executes the script from the top.
Rerun ==
    /\ pc \in {"done", "raised"}
    /\ pc' = "start"
    /\ cacheHit' = FALSE
    /\ fileAtRun' = Missing
    /\ df_original' = Unset
    /\ st_error' = 0
    /\ selected' = NoSelection
    /\ df' = << >>
    /\ report' = NoReport
    /\ slider' = NoSlider
    /\ num_rows' = << >>
    /\ UNCHANGED <<file, cache, cachedFrom>>

\* The file is replaced, removed or created between two runs (the script reads
\* it only at line 44, so a change at any other moment is seen as one made just
\* before the next run).
ChangeFile ==
    /\ pc = "start"
    /\ \E f \in ViewFiles \ {file} : file' = f
    /\ UNCHANGED <<cache, cachedFrom, fileAtRun, cacheHit, pc, df_original, st_error,
                   selected, df, report, slider, num_rows>>

Next ==
    \/ Load
    \/ LoadCached
    \/ NoTable
    \/ Sidebar
    \/ ApplyFilters
    \/ Aggregate
    \/ Sample
    \/ Rerun
    \/ ChangeFile

Spec == Init /\ [][Next]_vars

\* One call of load_and_clean_data on each raw table of CleanFiles.
NextClean == Load

SpecClean == InitClean /\ [][NextClean]_vars

\* ------------------------------------------------------------------ claims
Loaded == pc = "loaded" /\ df_original.kind = "table"

\* The raw row a cleaned row was made from.
RawOf(r) == fileAtRun.rows[r.index]

\* A raw row that load_and_clean_data keeps when it is the whole file.
SoundAlone(raw) == load_and_clean_data(Ok(<<raw>>)).rows # << >>

\* C1: the table returned by load_and_clean_data holds at most one row per
\* (title, type), and each of its rows is the first row of the input with that
\* (title, type): no later duplicate survives, whatever happened to the first.
C1_UniqueFirstOccurrence ==
    Loaded =>
        LET rows == df_original.rows
        IN  /\ \A i, j \in DOMAIN rows : i # j => ~SameKey(rows[i], rows[j])
            /\ \A i \in DOMAIN rows :
                  /\ rows[i].index \in DOMAIN fileAtRun.rows
                  /\ SameKey(RawOf(rows[i]), rows[i])
                  /\ \A k \in 1..(rows[i].index - 1) : ~SameKey(fileAtRun.rows[k], rows[i])
            /\ \A i, j \in DOMAIN rows : i < j => rows[i].index < rows[j].index

\* C1's case: the first occurrence is dropped by a later step (here the
\* required-field or date step) and its sound duplicate does not take its place.
C1_Witness ==
    /\ Loaded
    /\ \E k, j \in DOMAIN fileAtRun.rows :
          /\ k < j
          /\ SameKey(fileAtRun.rows[k], fileAtRun.rows[j])
          /\ ~SoundAlone(fileAtRun.rows[k])
          /\ SoundAlone(fileAtRun.rows[j])
          /\ \A i \in DOMAIN df_original.rows : ~SameKey(df_original.rows[i], fileAtRun.rows[j])

\* C2: every row of the cleaned table has year_added >= release_year, and its
\* content_lag_years is year_added - release_year, hence never negative.
C2_TemporalConsistency ==
    Loaded =>
        \A i \in DOMAIN df_original.rows :
            LET r == df_original.rows[i]
            IN  /\ r.year_added = r.date_added.year
                /\ r.release_year = RawOf(r).release_year
                /\ r.year_added >= r.release_year
                /\ r.content_lag_years = r.year_added - r.release_year
                /\ r.content_lag_years >= 0

\* C2's case: a row added in its release year is kept with lag 0 while a row
\* of the same file added before its release year is dropped.
C2_Witness ==
    /\ Loaded
    /\ \E i \in DOMAIN df_original.rows : df_original.rows[i].content_lag_years = 0
    /\ \E k \in DOMAIN fileAtRun.rows :
          /\ ~ToDatetime(Strip(fileAtRun.rows[k].date_added)).nat
          /\ ToDatetime(Strip(fileAtRun.rows[k].date_added)).year < fileAtRun.rows[k].release_year
          /\ \A i \in DOMAIN df_original.rows : df_original.rows[i].index # k

\* C3: the rating grouping is total and three-valued: TV-MA, R, NC-17 and UR
\* give Adult ('Adulto' in the source), TV-14 and PG-13 give Teen
\* ('Adolescente'), every other rating gives Family/Kids ('Família/Crianças').
C3_RatingGroupTotal ==
    Loaded =>
        \A i \in DOMAIN df_original.rows :
            LET r == df_original.rows[i]
            IN  /\ r.rating = RawOf(r).rating
                /\ r.rating_group \in {"Adulto", "Adolescente", "Família/Crianças"}
                /\ r.rating_group = "Adulto" <=> r.rating \in {"TV-MA", "R", "NC-17", "UR"}
                /\ r.rating_group = "Adolescente" <=> r.rating \in {"TV-14", "PG-13"}

\* C3's case: one table holds a rating of the Adult list next to one that is
\* on no list and fell into the default group.
C3_Witness ==
    /\ Loaded
    /\ \E i, j \in DOMAIN df_original.rows :
          /\ df_original.rows[i].rating = "UR"
          /\ df_original.rows[i].rating_group = "Adulto"
          /\ df_original.rows[j].rating = "NR"
          /\ df_original.rows[j].rating_group = "Família/Crianças"

\* C4: in the cleaned table a Movie row has duration_minutes set to the N of
\* its "<N> min" duration and duration_seasons absent, and a TV Show row has
\* duration_seasons set to the N of its "<N> Season(s)" duration and
\* duration_minutes absent.
C4_DurationSplit ==
    Loaded =>
        \A i \in DOMAIN df_original.rows :
            LET r == df_original.rows[i]
            IN  /\ r.duration = RawOf(r).duration
                /\ r.type = "Movie" =>
                      /\ \E n \in 0..99 :
                            r.duration = Decimal(n) \o Min /\ r.duration_minutes = <<n>>
                      /\ r.duration_seasons = NaN
                /\ r.type = "TV Show" =>
                      /\ \E n \in 0..99 :
                            /\ r.duration \in {Decimal(n) \o Season, Decimal(n) \o Season \o <<"s">>}
                            /\ r.duration_seasons = <<n>>
                      /\ r.duration_minutes = NaN

\* C4's case: a cleaned table with a movie and a show of several seasons.
C4_Witness ==
    /\ Loaded
    /\ \E i, j \in DOMAIN df_original.rows :
          /\ df_original.rows[i].type = "Movie"
          /\ df_original.rows[i].duration_minutes = <<90>>
          /\ df_original.rows[j].type = "TV Show"
          /\ df_original.rows[j].duration = Seasons2
          /\ df_original.rows[j].duration_seasons = <<2>>

\* The filter of line 128 has been applied in the current run.
Filtered == pc = "report" \/ report.rendered

NothingProcessed ==
    /\ selected = NoSelection
    /\ df = << >>
    /\ report = NoReport
    /\ slider = NoSlider
    /\ num_rows = << >>

\* C5 as stated: the filtered view is exactly the rows, in input order, whose
\* type and rating_group are selected, whose release_year lies in the range and
\* whose country cell contains one of the selected countries as a substring, so
\* that an empty country selection gives no row.
C5_FilterExact ==
    Filtered =>
        df = SelectSeq(df_original.rows, LAMBDA r :
                /\ r.type \in selected.type
                /\ r.rating_group \in selected.rating
                /\ selected.year[1] <= r.release_year
                /\ r.release_year <= selected.year[2]
                /\ \E c \in selected.country : HasSubstring(r.country, c))

\* C6 as stated: when the file is missing or unreadable, the loader reports
\* the failure and yields no table instead of raising, and the run does nothing
\* further.
C6_MissingOrUnreadableYieldsNone ==
    (pc # "start" /\ ~cacheHit /\ fileAtRun.status \in {"missing", "unreadable"}) =>
        /\ pc \in {"loaded", "done"}
        /\ df_original.kind = "none"
        /\ st_error = 1
        /\ NothingProcessed

\* C6 as amended: when the loader's body runs on a missing file it shows one
\* st.error and returns None, and a run whose df_original is None executes no
\* later section; on an unreadable file the body raises and the run ends there.
C6_MissingYieldsNone ==
    /\ (pc # "start" /\ ~cacheHit /\ fileAtRun.status = "missing") =>
          /\ pc \in {"loaded", "done"}
          /\ df_original.kind = "none"
          /\ st_error = 1
    /\ df_original.kind = "none" => NothingProcessed
    /\ (pc # "start" /\ ~cacheHit /\ fileAtRun.status = "unreadable") =>
          /\ pc = "raised"
          /\ df_original = Unset
          /\ st_error = 0
          /\ NothingProcessed

\* C6's case: a run whose loader ran on a missing file has ended.
C6_Witness ==
    /\ pc = "done"
    /\ ~cacheHit
    /\ fileAtRun.status = "missing"
    /\ df_original.kind = "none"
    /\ st_error = 1

\* A raw row free of the defects C7 lists, with a duration of its type's form.
Defective(raw) ==
    \/ raw.date_added = NaN
    \/ raw.rating = ""
    \/ raw.duration = NaN
    \/ ToDatetime(Strip(raw.date_added)).nat
    \/ ToDatetime(Strip(raw.date_added)).year < raw.release_year

FirstOccurrence(rows, k) == \A j \in 1..(k - 1) : ~SameKey(rows[j], rows[k])

\* C7 as stated, on the tables whose durations all have their type's form (so
\* that no duration can fail to convert): the load returns a table, and that
\* table holds exactly the first-occurrence rows without a listed defect.
C7_DefectsNeverFatal ==
    (pc # "start" /\ \A k \in DOMAIN fileAtRun.rows :
                        fileAtRun.rows[k].duration \in
                            {NaN, WellFormed(fileAtRun.rows[k].type, 1),
                             WellFormed(fileAtRun.rows[k].type, 2)}) =>
        /\ Loaded
        /\ {df_original.rows[i].index : i \in DOMAIN df_original.rows} =
              {k \in DOMAIN fileAtRun.rows :
                  FirstOccurrence(fileAtRun.rows, k) /\ ~Defective(fileAtRun.rows[k])}

\* C8 as stated: the table (or load failure) a run uses is the result of
\* cleaning the file as it is at that run.
C8_KeyedByContent ==
    pc \in {"loaded", "filter", "report", "sample", "done"} =>
        df_original = load_and_clean_data(fileAtRun)

\* C8 as amended: the entry is keyed by the function alone.  Once a call has
\* returned (a table or None) its value is stored and never replaced, and it is
\* the value every later run uses, whatever the file has become; it is the
\* result of cleaning the file as it was when that call ran.
C8_KeyedByFunction ==
    [][/\ cache # Empty => (cache' = cache /\ cachedFrom' = cachedFrom)
       /\ (pc = "start" /\ pc' = "loaded") =>
             /\ df_original' = cache'
             /\ cache' = load_and_clean_data(cachedFrom')]_vars

\* C8's case: a run uses the cached load failure although the file now exists
\* and cleans to a table.
C8_Witness ==
    /\ pc = "done"
    /\ cacheHit
    /\ df_original.kind = "none"
    /\ df_original = cache
    /\ cachedFrom = Missing
    /\ load_and_clean_data(fileAtRun).kind = "table"

\* C9: when no row matches the filters, every section renders an empty result
\* or a message and the run completes without raising.
C9_EmptyViewNoRaise ==
    (Filtered /\ df = << >>) =>
        /\ pc # "raised"
        /\ report.rendered =>
              /\ report.total_titles = 0
              /\ report.movie_count = 0
              /\ report.tv_show_count = 0
              /\ DOMAIN report.type_counts = {}
              /\ DOMAIN report.rating_counts = {}
              /\ DOMAIN report.content_by_year = {}
              /\ report.columns_to_plot = {}
              /\ DOMAIN report.top_10_countries = {}
              /\ DOMAIN report.top_10_genres = {}
              /\ report.movie_minutes = << >>
              /\ report.seasons.shown = "info"
              /\ report.wordcloud.shown = "warning"
        /\ pc = "done" =>
              /\ report.sample = "warning"
              /\ ~slider.configured
              /\ num_rows = << >>

\* C9's case: a run over a non-empty cleaned table whose filters match no row
\* has ended.
C9_Witness ==
    /\ pc = "done"
    /\ df_original.rows # << >>
    /\ selected.type # {}
    /\ selected.country # {}
    /\ df = << >>
    /\ report.rendered
    /\ report.sample = "warning"

\* C10 as stated: for a non-empty view the sample slider has
\* min_value <= value <= max_value, and the number of rows sampled is between
\* 1 and the number of rows of the view.
C10_SampleSliderInRange ==
    (pc \in {"done", "raised"} /\ report.rendered /\ df # << >>) =>
        /\ slider.configured
        /\ slider.min_value <= slider.value
        /\ slider.value <= slider.max_value
        /\ num_rows # << >> => (1 <= num_rows[1] /\ num_rows[1] <= Len(df))

====
